---- MODULE Spec2Model ----
(***************************************************************************)
(* The particle simulation engine of the Cells sketch: Particle, Spring,   *)
(* TagIndex, SpatialGrid and ParticleSystem, modelled as a state machine.  *)
(* Particles and springs are objects on a heap (sequences indexed by       *)
(* identity); the grid, its cells and the queues hold identities.          *)
(* Vectors are integer triples <<x, y, z>>.                                *)
(***************************************************************************)
EXTENDS Integers, Sequences, FiniteSets, TLC

(***************************************************************************)
(* Bounds of the model.                                                    *)
(***************************************************************************)
\* new BoundingBox(Width, Height): the simulation bounds (depth 0).
Width == 3
Height == 2
\* The size of one grid cell.
CellSize == 2
\* Particle objects constructed in one run.
MaxObjects == 2
\* Spring objects constructed in one run.
MaxSprings == 1
\* update() calls in one run.
MaxTicks == 3

\* The tags particles are given.
Tags == {"a", "b"}

\* The value createParticle returns when it refuses (undefined).
NoParticle == 0

(***************************************************************************)
(* Arrays.                                                                 *)
(***************************************************************************)
Range(s) == {s[i] : i \in 1..Len(s)}

\* Array.prototype.includes
Includes(s, e) == \E i \in 1..Len(s) : s[i] = e

\* Array.prototype.indexOf, 1-based; 0 when absent (JavaScript's -1).
IndexOf(s, e) ==
  IF Includes(s, e) THEN CHOOSE i \in 1..Len(s) : s[i] = e /\ \A j \in 1..(i - 1) : s[j] # e
  ELSE 0

\* splice(i, 1)
SpliceOut(s, i) == SubSeq(s, 1, i - 1) \o SubSeq(s, i + 1, Len(s))

\* const i = s.indexOf(e); if (i >= 0) s.splice(i, 1);
RemoveFirst(s, e) == IF IndexOf(s, e) > 0 THEN SpliceOut(s, IndexOf(s, e)) ELSE s

\* The number of places of s that hold e.
Count(s, e) == Cardinality({i \in 1..Len(s) : s[i] = e})

NoDuplicates(s) == \A i, j \in 1..Len(s) : s[i] = s[j] => i = j

RECURSIVE Concat(_)
\* The concatenation of a sequence of arrays.
Concat(ss) == IF ss = <<>> THEN <<>> ELSE Head(ss) \o Concat(Tail(ss))

(***************************************************************************)
(* Vectors.                                                                *)
(***************************************************************************)
Zero == <<0, 0, 0>>
VecAdd(a, b) == <<a[1] + b[1], a[2] + b[2], a[3] + b[3]>>
VecSub(a, b) == <<a[1] - b[1], a[2] - b[2], a[3] - b[3]>>
VecMult(a, k) == <<a[1] * k, a[2] * k, a[3] * k>>
Abs(n) == IF n < 0 THEN -n ELSE n
Sign(n) == IF n < 0 THEN -1 ELSE IF n > 0 THEN 1 ELSE 0
Min(a, b) == IF a < b THEN a ELSE b
Max(a, b) == IF a > b THEN a ELSE b

(***************************************************************************)
(* BoundingBox.                                                            *)
(***************************************************************************)
TopBackLeft == Zero
BottomFrontRight == <<Width, Height, 0>>

ContainsVector(v) ==
  /\ v[1] >= TopBackLeft[1] /\ v[2] >= TopBackLeft[2] /\ v[3] >= TopBackLeft[3]
  /\ v[1] <= BottomFrontRight[1] /\ v[2] <= BottomFrontRight[2]
  /\ v[3] <= BottomFrontRight[3]

\* constrained that clamps nothing.
ConstrainedNot(v) == v

Constrained(v) ==
  << Max(TopBackLeft[1], Min(BottomFrontRight[1], v[1])),
     Max(TopBackLeft[2], Min(BottomFrontRight[2], v[2])),
     Max(TopBackLeft[3], Min(BottomFrontRight[3], v[3])) >>

(***************************************************************************)
(* TagIndex: [particles |-> array, tagIndex |-> tag -> array].  A tag the  *)
(* Map has no entry for is the empty array: query reads both alike.        *)
(***************************************************************************)
NewTagIndex == [particles |-> <<>>, tagIndex |-> [t \in Tags |-> <<>>]]

TagIndexAddTag(ti, e, tag) ==
  IF Includes(ti.tagIndex[tag], e) THEN ti
  ELSE [ti EXCEPT !.tagIndex[tag] = Append(@, e)]

TagIndexRemoveTag(ti, e, tag) ==
  [ti EXCEPT !.tagIndex[tag] = RemoveFirst(@, e)]

\* add(entity): entityTags is entity.tags; the tags' arrays are independent,
\* so the forEach is taken tag by tag.
TagIndexAdd(ti, e, entityTags) ==
  [particles |-> Append(ti.particles, e),
   tagIndex |-> [t \in Tags |->
     IF t \in entityTags THEN TagIndexAddTag(ti, e, t).tagIndex[t]
     ELSE ti.tagIndex[t]]]

TagIndexRemove(ti, e, entityTags) ==
  [particles |-> RemoveFirst(ti.particles, e),
   tagIndex |-> [t \in Tags |->
     IF t \in entityTags THEN TagIndexRemoveTag(ti, e, t).tagIndex[t]
     ELSE ti.tagIndex[t]]]

\* Filters: {} is NoFilter, {and: tags} and {or: tags} carry an array of tags.
NoFilter == [kind |-> "none", tags |-> <<>>]
AndFilter(ts) == [kind |-> "and", tags |-> ts]
OrFilter(ts) == [kind |-> "or", tags |-> ts]

\* The and branch that returns the array of the first tag as it is.
AndReduceFirst(ti, ts, k) == ti.tagIndex[ts[1]]

RECURSIVE AndReduce(_, _, _)
\* filter.and.map(get).reduce((acc, arr) => acc.filter(p => arr.includes(p))),
\* the accumulator after the first k tags (k >= 1).
AndReduce(ti, ts, k) ==
  IF k <= 1 THEN ti.tagIndex[ts[1]]
  ELSE SelectSeq(AndReduce(ti, ts, k - 1), LAMBDA p : Includes(ti.tagIndex[ts[k]], p))

\* reduce over an empty array with no initial value raises a TypeError.
QueryThrows(filter) == filter.kind = "and" /\ filter.tags = <<>>

TagIndexQuery(ti, filter) ==
  CASE filter.kind = "none" -> ti.particles
    [] filter.kind = "and" ->
         IF filter.tags = <<>> THEN <<>> ELSE AndReduce(ti, filter.tags, Len(filter.tags))
    [] filter.kind = "or" ->
         Concat([i \in 1..Len(filter.tags) |-> ti.tagIndex[filter.tags[i]]])
    [] OTHER -> <<>>

(***************************************************************************)
(* SpatialGrid: [particles |-> array, cells |-> index -> TagIndex,         *)
(* globalTagIndex |-> TagIndex].                                           *)
(***************************************************************************)
CeilDiv(a, b) == (a + b - 1) \div b
\* The SpatialGrid constructor's rows and cols with one row and one column
\* too few: Math.ceil(height / cellSize).
RowsTight(height, cellSize) == CeilDiv(height, cellSize)

\* this.rows = Math.ceil((bounds.getHeight() + cellSize) / cellSize), and
\* this.cols likewise from the width.
RowsOf(height, cellSize) == CeilDiv(height + cellSize, cellSize)
ColsOf(width, cellSize) == CeilDiv(width + cellSize, cellSize)

Rows == RowsOf(Height, CellSize)
Cols == ColsOf(Width, CellSize)
NumCells == Rows * Cols
CellIndexes == 0..(NumCells - 1)

NewGrid ==
  [particles |-> <<>>,
   cells |-> [i \in CellIndexes |-> NewTagIndex],
   globalTagIndex |-> NewTagIndex]

\* hashPosition(pos) of a grid of the given cell size, rows and columns.
\* Math.floor(x / cellSize): \div rounds down, as floor does.
HashPositionIn(pos, cellSize, rows, cols) ==
  LET col == pos[1] \div cellSize
      row == pos[2] \div cellSize
  IN IF col < 0 \/ col >= cols \/ row < 0 \/ row >= rows THEN -1
     ELSE row * cols + col

HashPosition(pos) == HashPositionIn(pos, CellSize, Rows, Cols)

\* getCell(col, row) gives cells[col + row * cols]: the index, which names no
\* cell (undefined) when it is outside CellIndexes.
GetCell(col, row) == col + row * Cols

\* addParticle without its containsVector test.
AddParticleNeverThrows(pos) == FALSE

AddParticleThrows(pos) == ~ContainsVector(pos)

\* addParticle(particle), when it does not throw.
GridAddParticle(g, e, pos, entityTags) ==
  LET idx == HashPosition(pos)
  IN [particles |-> Append(g.particles, e),
      cells |-> [g.cells EXCEPT ![idx] = TagIndexAdd(@, e, entityTags)],
      globalTagIndex |-> TagIndexAdd(g.globalTagIndex, e, entityTags)]

\* removeParticle(particle), but for particle.detachSprings().
GridRemoveParticle(g, e, pos, entityTags) ==
  LET idx == HashPosition(pos)
  IN [particles |-> RemoveFirst(g.particles, e),
      cells |-> IF idx >= 0
                THEN [g.cells EXCEPT ![idx] = TagIndexRemove(@, e, entityTags)]
                ELSE g.cells,
      globalTagIndex |-> TagIndexRemove(g.globalTagIndex, e, entityTags)]

\* updateCell that takes a particle that left the cells off the flat list.
UpdateCellDrops(g, e, pos, entityTags, oldIndex) ==
  LET newIndex == HashPosition(pos)
      c1 == IF newIndex # oldIndex /\ oldIndex >= 0 /\ oldIndex < NumCells
            THEN [g.cells EXCEPT ![oldIndex] = TagIndexRemove(@, e, entityTags)]
            ELSE g.cells
      c2 == IF newIndex # oldIndex /\ newIndex >= 0 /\ newIndex < NumCells
            THEN [c1 EXCEPT ![newIndex] = TagIndexAdd(@, e, entityTags)]
            ELSE c1
  IN [g EXCEPT !.cells = c2,
               !.particles = IF newIndex < 0 THEN RemoveFirst(@, e) ELSE @]

\* updateCell(particle, oldIndex); pos is the particle's position now.
UpdateCell(g, e, pos, entityTags, oldIndex) ==
  LET newIndex == HashPosition(pos)
      c1 == IF newIndex # oldIndex /\ oldIndex >= 0 /\ oldIndex < NumCells
            THEN [g.cells EXCEPT ![oldIndex] = TagIndexRemove(@, e, entityTags)]
            ELSE g.cells
      c2 == IF newIndex # oldIndex /\ newIndex >= 0 /\ newIndex < NumCells
            THEN [c1 EXCEPT ![newIndex] = TagIndexAdd(@, e, entityTags)]
            ELSE c1
  IN [g EXCEPT !.cells = c2]

\* addTag that leaves the cell's index alone.
GridAddTagGlobalOnly(g, e, pos, tag) ==
  [g EXCEPT !.globalTagIndex = TagIndexAddTag(@, e, tag)]

GridAddTag(g, e, pos, tag) ==
  LET idx == HashPosition(pos)
  IN [g EXCEPT
        !.cells = IF idx >= 0 /\ idx < NumCells
                  THEN [@ EXCEPT ![idx] = TagIndexAddTag(@, e, tag)] ELSE @,
        !.globalTagIndex = TagIndexAddTag(@, e, tag)]

GridRemoveTag(g, e, pos, tag) ==
  LET idx == HashPosition(pos)
  IN [g EXCEPT
        !.cells = IF idx >= 0 /\ idx < NumCells
                  THEN [@ EXCEPT ![idx] = TagIndexRemoveTag(@, e, tag)] ELSE @,
        !.globalTagIndex = TagIndexRemoveTag(@, e, tag)]

\* The cells query({tags, position: {at, radius}}) visits, in its order
\* (x outer, y inner), those outside the grid skipped.
RECURSIVE CellsAround(_, _, _, _, _)
CellsAround(cellX, cellY, radius, x, y) ==
  IF x > cellX + radius THEN <<>>
  ELSE IF y > cellY + radius THEN CellsAround(cellX, cellY, radius, x + 1, cellY - radius)
  ELSE (IF x >= 0 /\ x < Cols /\ y >= 0 /\ y < Rows THEN <<x + y * Cols>> ELSE <<>>)
       \o CellsAround(cellX, cellY, radius, x, y + 1)

\* query({tags}) without a spatial constraint.
GridQuery(g, tags) == TagIndexQuery(g.globalTagIndex, tags)

\* query({tags, position: {at, radius}}).
GridQueryAt(g, tags, at, radius) ==
  LET cellX == at[1] \div CellSize
      cellY == at[2] \div CellSize
      visit == CellsAround(cellX, cellY, radius, cellX - radius, cellY - radius)
  IN Concat([i \in 1..Len(visit) |-> TagIndexQuery(g.cells[visit[i]], tags)])

(***************************************************************************)
(* Vector lengths.  The Vector3 class the particles use is a numeric       *)
(* library; on integer vectors along one axis its length, normalisation    *)
(* and limit are exact, and the inputs of the model keep every vector that *)
(* is measured along the x axis.                                           *)
(***************************************************************************)
RECURSIVE ISqrtFrom(_, _)
ISqrtFrom(n, r) == IF (r + 1) * (r + 1) > n THEN r ELSE ISqrtFrom(n, r + 1)

Magnitude(v) == ISqrtFrom(v[1] * v[1] + v[2] * v[2] + v[3] * v[3], 0)

\* normalize() that turns a vector of length zero into the unit vector along x.
NormalizeUnit(v) ==
  LET m == Magnitude(v)
  IN IF m = 0 THEN <<1, 0, 0>> ELSE <<v[1] \div m, v[2] \div m, v[3] \div m>>

\* normalize(): a vector of length zero stays zero.
Normalize(v) ==
  LET m == Magnitude(v)
  IN IF m = 0 THEN Zero ELSE <<v[1] \div m, v[2] \div m, v[3] \div m>>

\* limit(max): if (length > max) length = max.
Limit(v, max) == IF Magnitude(v) > max THEN VecMult(Normalize(v), max) ELSE v

VecDiv(v, k) == <<v[1] \div k, v[2] \div k, v[3] \div k>>

(***************************************************************************)
(* Particle and Spring objects.                                            *)
(***************************************************************************)
\* new Particle(position, system)
NewParticle(pos) ==
  [position |-> pos, velocity |-> Zero, forces |-> Zero, life |-> 0,
   removeFlag |-> FALSE, mass |-> 1, connections |-> <<>>,
   staticBody |-> FALSE, tags |-> {}, hit |-> FALSE]

\* applyForce without its staticBody test.
ApplyForceAlways(p, force) ==
  [p EXCEPT !.forces = VecAdd(@, force), !.hit = p.staticBody]

\* applyForce(force); hit records that a static particle was
\* handed a force.
ApplyForce(p, force) ==
  IF ~p.staticBody THEN [p EXCEPT !.forces = VecAdd(@, force)]
  ELSE [p EXCEPT !.hit = TRUE]

\* flushForces dividing by the mass before it limits.
FlushForcesDivideFirst(p, limit) ==
  LET scaled == VecDiv(p.forces, p.mass)
      limited == IF limit >= 0 THEN Limit(scaled, limit) ELSE scaled
  IN [p EXCEPT !.velocity = VecAdd(@, limited),
               !.forces = <<0, 0, limited[3]>>]

\* flushForces(limit): x and y of the accumulator are reset, z is left.
FlushForces(p, limit) ==
  LET limited == IF limit >= 0 THEN Limit(p.forces, limit) ELSE p.forces
      scaled == VecDiv(limited, p.mass)
  IN [p EXCEPT !.velocity = VecAdd(@, scaled),
               !.forces = <<0, 0, scaled[3]>>]

\* update(maxForce)
ParticleUpdate(p, limit) ==
  LET q == FlushForces(p, limit)
  IN [q EXCEPT !.position = VecAdd(@, q.velocity), !.life = @ + 1]

\* new Spring(particle1, particle2, springLength, springConstant)
NewSpring(a, b, restLength, k) ==
  [removeFlag |-> FALSE, particle1 |-> a, particle2 |-> b,
   springLength |-> restLength, k |-> k]

\* The force Spring.update() hands to particle1; particle2 gets its negation.
SpringForce(s, pos1, pos2) ==
  LET delta == VecSub(pos1, pos2)
      forceMag == (s.springLength - Magnitude(delta)) * s.k
  IN VecMult(Normalize(delta), forceMag)

\* Spring.update() handing the same force to both ends.
SpringUpdateSame(P, s) ==
  LET f == SpringForce(s, P[s.particle1].position, P[s.particle2].position)
      P1 == [P EXCEPT ![s.particle1] = ApplyForce(@, f)]
  IN [P1 EXCEPT ![s.particle2] = ApplyForce(@, f)]

\* Spring.update() on the heap of particles P.
SpringUpdate(P, s) ==
  LET f == SpringForce(s, P[s.particle1].position, P[s.particle2].position)
      P1 == [P EXCEPT ![s.particle1] = ApplyForce(@, f)]
  IN [P1 EXCEPT ![s.particle2] = ApplyForce(@, VecMult(f, -1))]

\* boundaryBounceBehavior(bounds)(particle)
BoundaryBounce(p) ==
  LET pos == p.position
      vel == p.velocity
      lo == TopBackLeft
      hi == BottomFrontRight
      px == IF pos[1] < lo[1] THEN lo[1] + 1 ELSE IF pos[1] > hi[1] THEN hi[1] - 1 ELSE pos[1]
      vx == IF pos[1] < lo[1] \/ pos[1] > hi[1] THEN -vel[1] ELSE vel[1]
      py == IF pos[2] < lo[2] THEN lo[2] + 1 ELSE IF pos[2] > hi[2] THEN hi[2] - 1 ELSE pos[2]
      vy == IF pos[2] < lo[2] \/ pos[2] > hi[2] THEN -vel[2] ELSE vel[2]
      pz == IF pos[3] < lo[3] THEN lo[3] ELSE IF pos[3] > hi[3] THEN hi[3] ELSE pos[3]
      vz == IF pos[3] < lo[3] \/ pos[3] > hi[3] THEN -vel[3] ELSE vel[3]
  IN [p EXCEPT !.position = <<px, py, pz>>, !.velocity = <<vx, vy, vz>>]

(***************************************************************************)
(* The state of one ParticleSystem.                                        *)
(***************************************************************************)
VARIABLES
  particle,               \* the Particle objects, by identity 1..Len(particle)
  spring,                 \* the Spring objects, by identity 1..Len(spring)
  grid,                   \* this.grid
  particleCreationQueue,  \* this.particleCreationQueue
  springs,                \* this.springs
  springCreationQueue,    \* this.springCreationQueue
  maxParticles,           \* this.maxParticles
  maxDensity,             \* this.maxDensity, a fraction <<numerator, denominator>>
  maxForce,               \* this.maxForce
  behaviors,              \* this.behaviors
  symmetricInteractions,  \* this.symmetricInteractions
  interactions,           \* this.interactions, the one-way interactions
  pc,                     \* where update() stands: "idle" between two calls
  bi,                     \* the behavior of this.behaviors that is running
  todo,                   \* the particles the running behavior has yet to visit
  ticks,                  \* update() calls begun
  call,                   \* the last createParticle call since update(): arguments and result
  symCalls,               \* the pairs the symmetric interactions of this update() were invoked on
  log,                    \* what the last update() did: phases run, springs updated,
                          \* functions invoked, neighbour lists handed out
  held,                   \* the array a caller keeps from its last query
  hashed                  \* the last hashPosition asked of a grid outside the system:
                          \* the grid's bounds and cells, the position, the index

vars ==
  << particle, spring, grid, particleCreationQueue, springs, springCreationQueue,
     maxParticles, maxDensity, maxForce, behaviors, symmetricInteractions,
     interactions, pc, bi, todo, ticks, call, symCalls, log, held, hashed >>

\* What the calls on the system leave alone.
config ==
  <<maxParticles, maxDensity, maxForce, behaviors, symmetricInteractions, interactions,
    hashed>>

\* No hashPosition asked yet.
NoHash == [made |-> FALSE, width |-> 0, height |-> 0, cellSize |-> 1, rows |-> 1,
           cols |-> 1, pos |-> Zero, index |-> 0, cell |-> 0]
\* The records of the calls made, and what the caller holds.
ghost == <<call, symCalls, log, held>>

\* No createParticle call since update().
NoCall == [pos |-> Zero, allowOutside |-> FALSE, result |-> NoParticle, error |-> FALSE,
           made |-> FALSE]

\* No update() begun yet.
NoLog == [phases |-> <<>>, sprung |-> <<>>, calls |-> <<>>, handed |-> <<>>,
          error |-> FALSE]

\* The position option of a query: keys are the keys the object has; none for
\* a query without position or with the empty object.
NoPosition == [keys |-> {}, at |-> Zero, radius |-> 0]

\* No query made yet.  array names the array the caller holds: "fresh" for
\* one made by the query, whose content is value, or "particles" or a tag
\* for the membership list or a tag's array of the global index itself.
NoHeld == [made |-> FALSE, array |-> "fresh", filter |-> NoFilter, position |-> NoPosition,
           value |-> <<>>]

Ids == 1..Len(particle)
SpringIds == 1..Len(spring)

(***************************************************************************)
(* Fractions <<n, d>> with d > 0, for densities.                           *)
(***************************************************************************)
FracLess(a, b) == a[1] * b[2] < b[1] * a[2]
One == <<1, 1>>

(***************************************************************************)
(* ParticleSystem: the public utility methods.                             *)
(***************************************************************************)
\* What getDensity gives when it reads .particles of no cell: a TypeError.
TypeError == <<0, 0>>

\* getDensity without its containsVector test.
GetDensityUnchecked(g, pos) ==
  LET cell == GetCell(pos[1] \div CellSize, pos[2] \div CellSize)
  IN IF cell \notin CellIndexes THEN TypeError
     ELSE <<Len(g.cells[cell].particles), CellSize * CellSize>>

\* getDensity(pos)
GetDensity(g, pos) ==
  IF ~ContainsVector(pos) THEN One
  ELSE LET cell == GetCell(pos[1] \div CellSize, pos[2] \div CellSize)
       IN IF cell \notin CellIndexes THEN TypeError
          ELSE <<Len(g.cells[cell].particles), CellSize * CellSize>>

\* checkPosition that admits at a density equal to maxDensity.
CheckPositionLoose(g, pos, maxPerCell) ==
  LET dens == GetDensity(g, pos)
  IN /\ Len(g.particles) < maxParticles
     /\ ~FracLess(maxDensity, dens)
     /\ FracLess(dens, maxPerCell)

\* checkPosition(pos, maxPerCell), when getDensity returns.
CheckPosition(g, pos, maxPerCell) ==
  LET dens == GetDensity(g, pos)
  IN /\ Len(g.particles) < maxParticles
     /\ FracLess(dens, maxDensity)
     /\ FracLess(dens, maxPerCell)

\* createParticle(pos, allowOutside) raises what getDensity raises.
CreateThrows(g, pos, allowOutside) == ~allowOutside /\ GetDensity(g, pos) = TypeError

\* createParticle that tests the position whatever allowOutside is.
AdmitsGated(g, pos, allowOutside) == CheckPosition(g, pos, One)

\* Whether createParticle(pos, allowOutside) makes a particle; checkPosition
\* gets its default maxPerCell = 1.
Admits(g, pos, allowOutside) == allowOutside \/ CheckPosition(g, pos, One)

\* The positions createParticle is called with.
CreatePositions == {<<x, y, 0>> : x \in (-1)..(Width + 1), y \in {0, Height}}

\* createParticle(pos, allowOutside)
CreateParticle(pos, allowOutside) ==
  /\ pc = "idle"
  /\ IF CreateThrows(grid, pos, allowOutside)
     THEN /\ call' = [pos |-> pos, allowOutside |-> allowOutside,
                      result |-> NoParticle, error |-> TRUE, made |-> TRUE]
          /\ UNCHANGED <<particle, particleCreationQueue>>
     ELSE IF Admits(grid, pos, allowOutside)
     THEN /\ Len(particle) < MaxObjects
          /\ particle' = Append(particle, NewParticle(Constrained(pos)))
          /\ particleCreationQueue' = Append(particleCreationQueue, Len(particle) + 1)
          /\ call' = [pos |-> pos, allowOutside |-> allowOutside,
                      result |-> Len(particle) + 1, error |-> FALSE, made |-> TRUE]
     ELSE /\ call' = [pos |-> pos, allowOutside |-> allowOutside,
                      result |-> NoParticle, error |-> FALSE, made |-> TRUE]
          /\ UNCHANGED <<particle, particleCreationQueue>>
  /\ UNCHANGED <<spring, grid, springs, springCreationQueue, config, pc, bi, todo,
                 ticks, symCalls, log, held>>

\* createSpring(a, b, restLength, k); the two ends share y and z, so that the
\* spring lies along x.
CreateSpring(a, b, restLength, k) ==
  /\ pc = "idle"
  /\ Len(spring) < MaxSprings
  /\ a # b
  /\ particle[a].position[2] = particle[b].position[2]
  /\ particle[a].position[3] = particle[b].position[3]
  /\ spring' = Append(spring, NewSpring(a, b, restLength, k))
  /\ springCreationQueue' = Append(springCreationQueue, Len(spring) + 1)
  /\ particle' = [particle EXCEPT
       ![a].connections = Append(@, Len(spring) + 1),
       ![b].connections = Append(@, Len(spring) + 1)]
  /\ UNCHANGED <<grid, particleCreationQueue, springs, config, pc, bi, todo, ticks, ghost>>

\* particle.staticBody = true, on a particle at rest.
MakeStatic(p) ==
  /\ pc = "idle"
  /\ ~particle[p].staticBody
  /\ particle[p].velocity = Zero
  /\ particle[p].forces = Zero
  /\ particle' = [particle EXCEPT ![p].staticBody = TRUE]
  /\ UNCHANGED <<spring, grid, particleCreationQueue, springs, springCreationQueue,
                 config, pc, bi, todo, ticks, ghost>>

\* Particle.addTag(tag), which calls system.addTag and so grid.addTag.
AddTag(p, tag) ==
  /\ pc = "idle"
  /\ tag \notin particle[p].tags
  /\ particle' = [particle EXCEPT ![p].tags = @ \cup {tag}]
  /\ grid' = GridAddTag(grid, p, particle[p].position, tag)
  /\ UNCHANGED <<spring, particleCreationQueue, springs, springCreationQueue,
                 config, pc, bi, todo, ticks, ghost>>

\* Particle.removeTag(tag), which calls system.removeTag and so grid.removeTag.
RemoveTag(p, tag) ==
  /\ pc = "idle"
  /\ tag \in particle[p].tags
  /\ particle' = [particle EXCEPT ![p].tags = @ \ {tag}]
  /\ grid' = GridRemoveTag(grid, p, particle[p].position, tag)
  /\ UNCHANGED <<spring, particleCreationQueue, springs, springCreationQueue,
                 config, pc, bi, todo, ticks, ghost>>

\* TagIndex.query that hands out the membership list itself for {}.
QueryReturnsOwn(filter) == IF filter.kind = "none" THEN "particles" ELSE "fresh"

\* The array TagIndex.query(filter) returns: for {} the spread [...particles],
\* for or the array it fills, for and over two tags and more the array
\* Array.prototype.filter makes; for and over one tag reduce returns its one
\* element, the tag's own array.
QueryReturns(filter) ==
  IF filter.kind = "and" /\ Len(filter.tags) = 1 THEN filter.tags[1] ELSE "fresh"

\* The content of the array h names, on grid g.
ArrayOf(g, h) ==
  CASE h.array = "fresh" -> h.value
    [] h.array = "particles" -> g.globalTagIndex.particles
    [] OTHER -> g.globalTagIndex.tagIndex[h.array]

\* The grid once the caller has made the content of its array new.
StoreGrid(g, h, new) ==
  CASE h.array = "fresh" -> g
    [] h.array = "particles" -> [g EXCEPT !.globalTagIndex.particles = new]
    [] OTHER -> [g EXCEPT !.globalTagIndex.tagIndex[h.array] = new]

\* What the caller holds once it has made the content of its array new.
StoreHeld(h, new) == IF h.array = "fresh" THEN [h EXCEPT !.value = new] ELSE h

\* system.query({tags: filter}) between two update() calls; the caller keeps
\* the array.
Query(filter) ==
  /\ pc = "idle"
  /\ ~QueryThrows(filter)
  /\ held' = [made |-> TRUE, array |-> QueryReturns(filter), filter |-> filter,
              position |-> NoPosition,
              value |-> IF QueryReturns(filter) = "fresh" THEN GridQuery(grid, filter)
                        ELSE <<>>]
  /\ UNCHANGED <<particle, spring, grid, particleCreationQueue, springs,
                 springCreationQueue, config, pc, bi, todo, ticks, call, symCalls, log>>

\* position.radius || 1
QueryRadiusOne(position) ==
  IF "radius" \in position.keys /\ position.radius # 0 THEN position.radius ELSE 1

\* position.radius || 0
QueryRadius(position) ==
  IF "radius" \in position.keys /\ position.radius # 0 THEN position.radius ELSE 0

\* SpatialGrid.query({tags, position}), position with the key at or without
\* keys.
SpatialQuery(g, tags, position) ==
  IF position.keys = {} THEN GridQuery(g, tags)
  ELSE GridQueryAt(g, tags, position.at, QueryRadius(position))

\* system.query({tags: filter, position}) between two update() calls, for a
\* filter whose query makes its array; the caller keeps the array.
QueryAt(filter, position) ==
  /\ pc = "idle"
  /\ QueryReturns(filter) = "fresh"
  /\ held' = [made |-> TRUE, array |-> "fresh", filter |-> filter, position |-> position,
              value |-> SpatialQuery(grid, filter, position)]
  /\ UNCHANGED <<particle, spring, grid, particleCreationQueue, springs,
                 springCreationQueue, config, pc, bi, todo, ticks, call, symCalls, log>>

\* The caller changes the array it holds to new.
HeldStore(new) ==
  /\ pc = "idle"
  /\ held.made
  /\ new # ArrayOf(grid, held)
  /\ grid' = StoreGrid(grid, held, new)
  /\ held' = StoreHeld(held, new)
  /\ UNCHANGED <<particle, spring, particleCreationQueue, springs,
                 springCreationQueue, config, pc, bi, todo, ticks, call, symCalls, log>>

\* The held array after reverse().
Reverse(s) == [i \in 1..Len(s) |-> s[Len(s) + 1 - i]]

\* held.push(e), held.pop(), held.reverse()
\* held.push(e), on an array no longer than the particles made.
HeldPush(e) ==
  /\ Len(ArrayOf(grid, held)) < Len(particle)
  /\ HeldStore(Append(ArrayOf(grid, held), e))

\* held.pop()
HeldPop ==
  /\ ArrayOf(grid, held) # <<>>
  /\ HeldStore(SubSeq(ArrayOf(grid, held), 1, Len(ArrayOf(grid, held)) - 1))

\* held.reverse()
HeldReverse == HeldStore(Reverse(ArrayOf(grid, held)))

\* Particle.setRemoveFlag(flag), between two update() calls; a call that
\* changes nothing is left out.
SetRemoveFlag(p, flag) ==
  /\ pc = "idle"
  /\ particle[p].removeFlag # flag
  /\ particle' = [particle EXCEPT ![p].removeFlag = flag]
  /\ UNCHANGED <<spring, grid, particleCreationQueue, springs, springCreationQueue,
                 config, pc, bi, todo, ticks, ghost>>

\* Particle.setPosition(v) on a particle that waits in the creation queue.
SetPosition(p, v) ==
  /\ pc = "idle"
  /\ Includes(particleCreationQueue, p)
  /\ particle[p].position # v
  /\ particle' = [particle EXCEPT ![p].position = v]
  /\ UNCHANGED <<spring, grid, particleCreationQueue, springs, springCreationQueue,
                 config, pc, bi, todo, ticks, ghost>>

\* Spring.remove(), between two update() calls.
SpringRemove(s) ==
  /\ pc = "idle"
  /\ ~spring[s].removeFlag
  /\ spring' = [spring EXCEPT ![s].removeFlag = TRUE]
  /\ UNCHANGED <<particle, grid, particleCreationQueue, springs, springCreationQueue,
                 config, pc, bi, todo, ticks, ghost>>

(***************************************************************************)
(* ParticleSystem.update(), phase by phase.                                *)
(***************************************************************************)
RECURSIVE CommitFrom(_, _, _)
\* particleCreationQueue.forEach(p => grid.addParticle(p)) from place i on:
\* the grid it leaves, and whether addParticle threw.
CommitFrom(g, queue, i) ==
  IF i > Len(queue) THEN [grid |-> g, thrown |-> FALSE]
  ELSE IF AddParticleThrows(particle[queue[i]].position) THEN [grid |-> g, thrown |-> TRUE]
  ELSE CommitFrom(GridAddParticle(g, queue[i], particle[queue[i]].position,
                                  particle[queue[i]].tags), queue, i + 1)

\* springs.push(...springCreationQueue) that pushes nothing.
CommitSpringsNot(active, queue) == active

\* this.springs.push(...this.springCreationQueue)
CommitSprings(active, queue) == active \o queue

RECURSIVE UpdateSpringsUnflagged(_, _, _)
\* updateSprings() that passes over the springs whose removal flag is set.
UpdateSpringsUnflagged(P, active, i) ==
  IF i > Len(active) THEN P
  ELSE UpdateSpringsUnflagged(IF spring[active[i]].removeFlag THEN P
                              ELSE SpringUpdate(P, spring[active[i]]), active, i + 1)

RECURSIVE UpdateSpringsFrom(_, _, _)
\* updateSprings(): springs.forEach(s => s.update()) from place i on.
UpdateSpringsFrom(P, active, i) ==
  IF i > Len(active) THEN P
  ELSE UpdateSpringsFrom(SpringUpdate(P, spring[active[i]]), active, i + 1)

\* The pairs _applySymmetricCell(interaction, filter, cx1, cy1, cx2, cy2)
\* invokes the interaction on, in order.
ApplySymmetricCell(g, filter, cx1, cy1, cx2, cy2) ==
  IF cx2 < 0 \/ cy2 < 0 \/ cx2 >= Cols \/ cy2 >= Rows THEN <<>>
  ELSE LET listA == TagIndexQuery(g.cells[GetCell(cx1, cy1)], filter)
           listB == TagIndexQuery(g.cells[GetCell(cx2, cy2)], filter)
       IN IF cx1 = cx2 /\ cy1 = cy2
          THEN Concat([i \in 1..Len(listA) |->
                 [j \in 1..(Len(listA) - i) |-> <<listA[i], listA[i + j]>>]])
          ELSE Concat([i \in 1..Len(listA) |->
                 [j \in 1..Len(listB) |-> <<listA[i], listB[j]>>]])

\* The five calls of the loop body at cell (cx, cy).
SymmetricAt(g, filter, cx, cy) ==
  ApplySymmetricCell(g, filter, cx, cy, cx, cy)
  \o ApplySymmetricCell(g, filter, cx, cy, cx + 1, cy)
  \o ApplySymmetricCell(g, filter, cx, cy, cx + 1, cy + 1)
  \o ApplySymmetricCell(g, filter, cx, cy, cx, cy + 1)
  \o ApplySymmetricCell(g, filter, cx, cy, cx - 1, cy + 1)

\* One symmetric interaction over the whole grid: cx outer, cy inner.
SymmetricCalls(g, filter) ==
  Concat([cx \in 1..Cols |->
    Concat([cy \in 1..Rows |-> SymmetricAt(g, filter, cx - 1, cy - 1)])])

\* The first n registered symmetric interactions, in registration order.
SymmetricCallsUpTo(g, n) ==
  Concat([k \in 1..n |-> SymmetricCalls(g, symmetricInteractions[k].filter)])

\* All registered symmetric interactions, in registration order.
AllSymmetricCalls(g) == SymmetricCallsUpTo(g, Len(symmetricInteractions))

\* The least index of hits, a subset of 1..n, or n + 1 when it is empty: where
\* a forEach that stops at the first error stops.
FirstIndex(n, hits) ==
  IF hits = {} THEN n + 1 ELSE CHOOSE k \in hits : \A j \in hits : k <= j

\* One invocation of a registered function: its category, its place in the
\* registration order, the particle it was handed first.
Invocation(kind, k, p) == [kind |-> kind, index |-> k, on |-> p]

\* The one-way interaction k raises: its query does, or the neighbour query
\* made for the first particle of its query does.
InteractionThrows(g, k) ==
  \/ QueryThrows(interactions[k].filter)
  \/ /\ GridQuery(g, interactions[k].filter) # <<>>
     /\ QueryThrows(interactions[k].neighborFilter)

\* The invocations of the first n one-way interactions: interaction(p,
\* neighbors) for every p of grid.query({tags: filter}).
InteractionCallsUpTo(g, n) ==
  Concat([k \in 1..n |->
    LET ps == GridQuery(g, interactions[k].filter)
    IN [i \in 1..Len(ps) |-> Invocation("interaction", k, ps[i])]])

\* The neighbours interaction k is handed for p: the query of radius 1 around
\* p, p itself filtered out.
Neighbors(g, P, k, p) ==
  SelectSeq(GridQueryAt(g, interactions[k].neighborFilter, P[p].position, 1),
            LAMBDA n : n # p)

\* What the first n one-way interactions are invoked with: the particle and
\* the neighbour list, where the particles stand when update() begins (the
\* springs and the counting interactions move none).
InteractionHandedUpTo(g, n) ==
  Concat([k \in 1..n |->
    LET ps == GridQuery(g, interactions[k].filter)
    IN [i \in 1..Len(ps) |->
         [index |-> k, on |-> ps[i], neighbors |-> Neighbors(g, particle, k, ps[i])]]])

\* The pairs the first n symmetric interactions are called on, each with the
\* place of its interaction in the registration order.  The pairs of one
\* interaction are bound once, as the element of a singleton.
SymmetricPairsUpTo(g, n) ==
  Concat([k \in 1..n |->
    CHOOSE tagged \in
      {[i \in 1..Len(pairs) |-> [index |-> k, pair |-> pairs[i]]] :
         pairs \in {SymmetricCalls(g, symmetricInteractions[k].filter)}} : TRUE])

\* The invocations of the first n symmetric interactions.
SymmetricInvocationsUpTo(g, n) ==
  Concat([k \in 1..n |->
    LET pairs == SymmetricCalls(g, symmetricInteractions[k].filter)
    IN [i \in 1..Len(pairs) |-> Invocation("symmetric", k, pairs[i][1])]])

\* updateBehaviors() with the symmetric interactions ahead of the one-way
\* ones.
BeforeBehaviorsSwapped(g) ==
  [calls |-> SymmetricInvocationsUpTo(g, Len(symmetricInteractions))
               \o InteractionCallsUpTo(g, Len(interactions)),
   handed |-> InteractionHandedUpTo(g, Len(interactions)),
   pairs |-> AllSymmetricCalls(g),
   thrown |-> FALSE]

\* updateBehaviors() up to the single-particle behaviors, on grid g: the
\* invocations made, the pairs of the symmetric ones, and whether a query
\* raised and ended update() there.
BeforeBehaviors(g) ==
  LET ni == Len(interactions)
      ns == Len(symmetricInteractions)
      ki == FirstIndex(ni, {k \in 1..ni : InteractionThrows(g, k)})
      ks == FirstIndex(ns, {k \in 1..ns : QueryThrows(symmetricInteractions[k].filter)})
  IN IF ki <= ni
     THEN [calls |-> InteractionCallsUpTo(g, ki - 1),
           handed |-> InteractionHandedUpTo(g, ki - 1),
           pairs |-> <<>>, thrown |-> TRUE]
     ELSE CHOOSE r \in
            {[calls |-> InteractionCallsUpTo(g, ni)
                          \o [i \in 1..Len(sym) |->
                               Invocation("symmetric", sym[i].index, sym[i].pair[1])],
              handed |-> InteractionHandedUpTo(g, ni),
              pairs |-> [i \in 1..Len(sym) |-> sym[i].pair],
              thrown |-> ks <= ns] : sym \in {SymmetricPairsUpTo(g, ks - 1)}} : TRUE

\* The phases of update(), in the order of its statements.
CommitPhases == <<"commitParticles", "commitSprings", "updateSprings">>
LatePhases == <<"updateBehaviors", "updateParticles", "cleanUpParticles">>

RECURSIVE UpdateParticlesFrom(_, _, _, _)
\* updateParticles(): grid.particles.forEach from place i on; live is the
\* array walked.
UpdateParticlesFrom(g, P, live, i) ==
  IF i > Len(live) THEN [grid |-> g, particle |-> P]
  ELSE LET e == live[i]
           oldCell == HashPosition(P[e].position)
           moved == ParticleUpdate(P[e], maxForce)
       IN UpdateParticlesFrom(UpdateCell(g, e, moved.position, moved.tags, oldCell),
                              [P EXCEPT ![e] = moved], live, i + 1)

\* detachSprings() that flags nothing.
DetachSpringsNot(S, connections) == S

\* detachSprings(): every connection of the particle is flagged.
DetachSprings(S, connections) ==
  [s \in 1..Len(S) |-> IF Includes(connections, s) THEN [S[s] EXCEPT !.removeFlag = TRUE]
                       ELSE S[s]]

RECURSIVE RemoveDeadFrom(_, _, _, _, _)
\* The first half of cleanUpParticles(): grid.removeParticle on each flagged
\* particle of dead, from place i on.
RemoveDeadFrom(g, P, S, dead, i) ==
  IF i > Len(dead) THEN [grid |-> g, spring |-> S]
  ELSE LET e == dead[i]
       IN RemoveDeadFrom(GridRemoveParticle(g, e, P[e].position, P[e].tags), P,
                         DetachSprings(S, P[e].connections), dead, i + 1)

\* getN1() and getN2() of the Spring class ParticleSystem imports: the two
\* ends of the spring, whose constraint lists the cleanup detaches it from.
GetN1(s) == s.particle1
GetN2(s) == s.particle2

\* The second half of cleanUpParticles() without removeSpring on the ends.
RemoveSpringsKeepEnds(active, P, S, flagged, i) ==
  [springs |-> SelectSeq(active, LAMBDA s : ~Includes(flagged, s)), particle |-> P]

RECURSIVE RemoveSpringsFrom(_, _, _, _, _)
\* The second half of cleanUpParticles(): each flagged spring leaves the
\* active list and the connections of its two ends.
RemoveSpringsFrom(active, P, S, flagged, i) ==
  IF i > Len(flagged) THEN [springs |-> active, particle |-> P]
  ELSE LET s == flagged[i]
           P1 == [P EXCEPT ![GetN1(S[s])].connections = RemoveFirst(@, s)]
           P2 == [P1 EXCEPT ![GetN2(S[s])].connections = RemoveFirst(@, s)]
       IN RemoveSpringsFrom(RemoveFirst(active, s), P2, S, flagged, i + 1)

\* cleanUpParticles() on grid g, particles P, springs S and the active list.
CleanUpParticles(g, P, S, active) ==
  LET dead == SelectSeq(GridQuery(g, NoFilter), LAMBDA e : P[e].removeFlag)
      r1 == RemoveDeadFrom(g, P, S, dead, 1)
      flagged == SelectSeq(active, LAMBDA s : r1.spring[s].removeFlag)
      r2 == RemoveSpringsFrom(active, P, r1.spring, flagged, 1)
  IN [grid |-> r1.grid, spring |-> r1.spring, springs |-> r2.springs,
      particle |-> r2.particle, dead |-> dead]

\* The forces a registered behavior hands to a particle.
ForceChoices == {<<1, 0, 0>>, <<-1, 0, 0>>}

\* update(), steps 1 to 4 up to the single-particle behaviors: commit of both
\* queues, the springs, the one-way and the symmetric interactions (which
\* only count here).  An error raised by addParticle or by a query ends
\* update() where it is raised.
UpdateBegin ==
  /\ pc = "idle"
  /\ ticks < MaxTicks
  /\ ticks' = ticks + 1
  /\ \E c \in {CommitFrom(grid, particleCreationQueue, 1)} :
       IF c.thrown
       THEN /\ grid' = c.grid
            /\ log' = [NoLog EXCEPT !.error = TRUE]
            /\ UNCHANGED <<particle, spring, particleCreationQueue, springs,
                           springCreationQueue, pc, bi, todo, symCalls>>
       ELSE \E b \in {BeforeBehaviors(c.grid)} :
            \E active \in {CommitSprings(springs, springCreationQueue)} :
              LET stop == \/ b.thrown
                          \/ behaviors # <<>> /\ QueryThrows(behaviors[1].filter)
              IN /\ grid' = c.grid
                 /\ particleCreationQueue' = <<>>
                 /\ springs' = active
                 /\ springCreationQueue' = <<>>
                 /\ particle' = UpdateSpringsFrom(particle, active, 1)
                 /\ symCalls' = b.pairs
                 /\ log' = [phases |-> CommitPhases, sprung |-> active,
                            calls |-> b.calls, handed |-> b.handed, error |-> stop]
                 /\ pc' = IF stop THEN "idle" ELSE "behaviors"
                 /\ bi' = 1
                 /\ todo' = IF behaviors = <<>> \/ stop THEN <<>>
                            ELSE GridQuery(c.grid, behaviors[1].filter)
                 /\ UNCHANGED spring
  /\ call' = NoCall
  /\ UNCHANGED <<config, held>>

\* The record of one more invocation of the running behavior.
Behaved(p) == [log EXCEPT !.calls = Append(@, Invocation("behavior", bi, p))]

\* A registered behavior function of the user's, called with the next
\* particle of the query: it applies a force.
BehaviorApplyForce(f) ==
  /\ pc = "behaviors" /\ todo # <<>>
  /\ behaviors[bi].behavior = "user"
  /\ particle' = [particle EXCEPT ![Head(todo)] = ApplyForce(@, f)]
  /\ todo' = Tail(todo)
  /\ log' = Behaved(Head(todo))
  /\ UNCHANGED <<spring, grid, particleCreationQueue, springs, springCreationQueue,
                 config, pc, bi, ticks, call, symCalls, held>>

\* The same function flags the particle for removal, or leaves it alone.
BehaviorSetRemoveFlag(flag) ==
  /\ pc = "behaviors" /\ todo # <<>>
  /\ behaviors[bi].behavior = "user"
  /\ particle' = [particle EXCEPT ![Head(todo)].removeFlag = (@ \/ flag)]
  /\ todo' = Tail(todo)
  /\ log' = Behaved(Head(todo))
  /\ UNCHANGED <<spring, grid, particleCreationQueue, springs, springCreationQueue,
                 config, pc, bi, ticks, call, symCalls, held>>

\* The same function calls createParticle(pos), which makes a particle.
BehaviorCreateParticle(pos) ==
  /\ pc = "behaviors" /\ todo # <<>>
  /\ behaviors[bi].behavior = "user"
  /\ ~CreateThrows(grid, pos, FALSE) /\ Admits(grid, pos, FALSE)
  /\ Len(particle) < MaxObjects
  /\ particle' = Append(particle, NewParticle(Constrained(pos)))
  /\ particleCreationQueue' = Append(particleCreationQueue, Len(particle) + 1)
  /\ todo' = Tail(todo)
  /\ log' = Behaved(Head(todo))
  /\ UNCHANGED <<spring, grid, springs, springCreationQueue, config, pc, bi, ticks,
                 call, symCalls, held>>

\* The same function calls createSpring(a, b, restLength, k) on two
\* particles that share y and z.
BehaviorCreateSpring(a, b, restLength, k) ==
  /\ pc = "behaviors" /\ todo # <<>>
  /\ behaviors[bi].behavior = "user"
  /\ Len(spring) < MaxSprings
  /\ a # b
  /\ particle[a].position[2] = particle[b].position[2]
  /\ particle[a].position[3] = particle[b].position[3]
  /\ spring' = Append(spring, NewSpring(a, b, restLength, k))
  /\ springCreationQueue' = Append(springCreationQueue, Len(spring) + 1)
  /\ particle' = [particle EXCEPT
       ![a].connections = Append(@, Len(spring) + 1),
       ![b].connections = Append(@, Len(spring) + 1)]
  /\ todo' = Tail(todo)
  /\ log' = Behaved(Head(todo))
  /\ UNCHANGED <<grid, particleCreationQueue, springs, config, pc, bi, ticks,
                 call, symCalls, held>>

\* The particles forEach has yet to visit once the behavior, called with
\* Head(todo), has left grid g behind: the rest of the array walked.  The
\* array of a {and: [t]} query is the index's own array of t, which the
\* behavior may have spliced; forEach goes on at the next place of it.
RestOfWalk(g) ==
  LET h == QueryReturns(behaviors[bi].filter)
  IN IF h = "fresh" THEN Tail(todo)
     ELSE LET k == IndexOf(grid.globalTagIndex.tagIndex[h], Head(todo))
              arr == g.globalTagIndex.tagIndex[h]
          IN SubSeq(arr, k + 1, Len(arr))

\* The same function calls removeTag(tag) on the particle it is called with.
BehaviorRemoveTag(tag) ==
  /\ pc = "behaviors" /\ todo # <<>>
  /\ behaviors[bi].behavior = "user"
  /\ tag \in particle[Head(todo)].tags
  /\ particle' = [particle EXCEPT ![Head(todo)].tags = @ \ {tag}]
  /\ grid' = GridRemoveTag(grid, Head(todo), particle[Head(todo)].position, tag)
  /\ todo' = RestOfWalk(grid')
  /\ log' = Behaved(Head(todo))
  /\ UNCHANGED <<spring, particleCreationQueue, springs, springCreationQueue,
                 config, pc, bi, ticks, call, symCalls, held>>

\* boundaryBounceBehavior, registered as a behavior, called with the next
\* particle of the query.
BehaviorBounce ==
  /\ pc = "behaviors" /\ todo # <<>>
  /\ behaviors[bi].behavior = "bounce"
  /\ particle' = [particle EXCEPT ![Head(todo)] = BoundaryBounce(@)]
  /\ todo' = Tail(todo)
  /\ log' = Behaved(Head(todo))
  /\ UNCHANGED <<spring, grid, particleCreationQueue, springs, springCreationQueue,
                 config, pc, bi, ticks, call, symCalls, held>>

\* behaviors.forEach goes on to the next registered behavior and takes its query.
BehaviorNext ==
  /\ pc = "behaviors" /\ todo = <<>>
  /\ bi < Len(behaviors)
  /\ bi' = bi + 1
  /\ IF QueryThrows(behaviors[bi + 1].filter)
     THEN /\ pc' = "idle"
          /\ todo' = <<>>
          /\ log' = [log EXCEPT !.error = TRUE]
     ELSE /\ todo' = GridQuery(grid, behaviors[bi + 1].filter)
          /\ UNCHANGED <<pc, log>>
  /\ UNCHANGED <<particle, spring, grid, particleCreationQueue, springs,
                 springCreationQueue, config, ticks, call, symCalls, held>>

\* update(), steps 5 and 6: updateParticles() and cleanUpParticles().
UpdateFinish ==
  /\ pc = "behaviors" /\ todo = <<>>
  /\ bi >= Len(behaviors)
  /\ LET m == UpdateParticlesFrom(grid, particle, grid.particles, 1)
         c == CleanUpParticles(m.grid, m.particle, spring, springs)
     IN /\ grid' = c.grid
        /\ particle' = c.particle
        /\ spring' = c.spring
        /\ springs' = c.springs
  /\ symCalls' = <<>>
  /\ log' = [phases |-> log.phases \o LatePhases, sprung |-> <<>>, calls |-> <<>>,
             handed |-> <<>>, error |-> FALSE]
  /\ pc' = "idle"
  /\ UNCHANGED <<particleCreationQueue, springCreationQueue, config, bi, todo, ticks,
                 call, held>>

(***************************************************************************)
(* Specifications.                                                         *)
(***************************************************************************)
InitSystem ==
  /\ particle = <<>>
  /\ spring = <<>>
  /\ grid = NewGrid
  /\ particleCreationQueue = <<>>
  /\ springs = <<>>
  /\ springCreationQueue = <<>>
  /\ maxForce = -1
  /\ pc = "idle"
  /\ bi = 1
  /\ todo = <<>>
  /\ ticks = 0
  /\ call = NoCall
  /\ symCalls = <<>>
  /\ log = NoLog
  /\ held = NoHeld
  /\ hashed = NoHash

\* Where the particles of the moving system are asked for: one place in each
\* cell that has places inside the bounds.
SpawnPositions == {<<x, y, 0>> : x \in {1, Width}, y \in {0, Height}}

\* A system with a counting symmetric interaction over all particles, a
\* behavior of the user's and boundaryBounceBehavior.
Init ==
  /\ InitSystem
  /\ maxParticles = MaxObjects
  /\ maxDensity = <<2, 1>>
  /\ interactions = <<>>
  /\ symmetricInteractions = <<[interaction |-> "count", filter |-> NoFilter]>>
  /\ behaviors = << [behavior |-> "user", filter |-> NoFilter],
                    [behavior |-> "bounce", filter |-> NoFilter] >>

Next ==
  \/ \E pos \in SpawnPositions : CreateParticle(pos, FALSE)
  \/ \E a, b \in Ids : CreateSpring(a, b, 1, 1)
  \/ \E p \in Ids : MakeStatic(p)
  \/ UpdateBegin
  \/ \E f \in ForceChoices : BehaviorApplyForce(f)
  \/ \E flag \in BOOLEAN : BehaviorSetRemoveFlag(flag)
  \/ BehaviorBounce
  \/ BehaviorNext
  \/ UpdateFinish

Spec == Init /\ [][Next]_vars

\* The ways the systems that only admit particles are built.
MaxParticlesChoices == {1, MaxObjects}
MaxDensityChoices == {<<1, 4>>, <<2, 1>>}

\* A system with nothing registered: createParticle, setRemoveFlag and update()
\* alone, for every position of CreatePositions, inside the bounds and outside.
InitAdmission ==
  /\ InitSystem
  /\ maxParticles \in MaxParticlesChoices
  /\ maxDensity \in MaxDensityChoices
  /\ interactions = <<>>
  /\ symmetricInteractions = <<>>
  /\ behaviors = <<>>

NextAdmission ==
  \/ \E pos \in CreatePositions : CreateParticle(pos, FALSE)
  \/ \E p \in Ids : SetRemoveFlag(p, TRUE)
  \/ UpdateBegin
  \/ UpdateFinish

SpecAdmission == InitAdmission /\ [][NextAdmission]_vars

\* A system with nothing registered whose particles are tagged and untagged
\* between the calls of update().
InitTags ==
  /\ InitSystem
  /\ maxParticles = MaxObjects
  /\ maxDensity = <<2, 1>>
  /\ interactions = <<>>
  /\ symmetricInteractions = <<>>
  /\ behaviors = <<>>

NextTags ==
  \/ \E pos \in SpawnPositions : CreateParticle(pos, FALSE)
  \/ \E p \in Ids, t \in Tags : AddTag(p, t)
  \/ \E p \in Ids, t \in Tags : RemoveTag(p, t)
  \/ \E p \in Ids : SetRemoveFlag(p, TRUE)
  \/ UpdateBegin
  \/ UpdateFinish

SpecTags == InitTags /\ [][NextTags]_vars

\* Positions asked for with and without allowOutside: left of the bounds,
\* inside, right of them.  None is on the edge of the bounds, so that a
\* particle on the edge was clamped there.
OutsidePositions == {<<x, y, 0>> : x \in {-1, 1, Width + 1}, y \in {0, Height}}

\* The systems of InitAdmission, asked for particles with allowOutside true
\* and false.
NextOutside ==
  \/ \E pos \in OutsidePositions, allowOutside \in BOOLEAN : CreateParticle(pos, allowOutside)
  \/ \E p \in Ids : SetRemoveFlag(p, TRUE)
  \/ UpdateBegin
  \/ UpdateFinish

SpecOutside == InitAdmission /\ [][NextOutside]_vars

\* The system of InitTags with springs: particles and springs are made and
\* flagged for removal between the calls of update(), and a particle's flag
\* is set and cleared.
NextSprings ==
  \/ \E pos \in SpawnPositions : CreateParticle(pos, FALSE)
  \/ \E a, b \in Ids : CreateSpring(a, b, 1, 1)
  \/ \E s \in SpringIds : SpringRemove(s)
  \/ \E p \in Ids, flag \in BOOLEAN : SetRemoveFlag(p, flag)
  \/ UpdateBegin
  \/ UpdateFinish

SpecSprings == InitTags /\ [][NextSprings]_vars

\* The filters the second function of each category is registered with: all
\* particles, and the empty and list.
OrderFilters == {NoFilter, AndFilter(<<>>)}

\* A system with two counting one-way interactions, two counting symmetric
\* interactions and two behaviors that flag the particle or leave it alone.
InitOrder ==
  /\ InitSystem
  /\ maxParticles = MaxObjects
  /\ maxDensity = <<2, 1>>
  /\ \E f \in OrderFilters :
       interactions = << [interaction |-> "count", filter |-> NoFilter,
                          neighborFilter |-> NoFilter],
                         [interaction |-> "count", filter |-> f,
                          neighborFilter |-> NoFilter] >>
  /\ \E f \in OrderFilters :
       symmetricInteractions = << [interaction |-> "count", filter |-> NoFilter],
                                  [interaction |-> "count", filter |-> f] >>
  /\ \E f \in OrderFilters :
       behaviors = << [behavior |-> "user", filter |-> NoFilter],
                      [behavior |-> "user", filter |-> f] >>

NextOrder ==
  \/ \E pos \in SpawnPositions : CreateParticle(pos, FALSE)
  \/ UpdateBegin
  \/ \E flag \in BOOLEAN : BehaviorSetRemoveFlag(flag)
  \/ BehaviorNext
  \/ UpdateFinish

SpecOrder == InitOrder /\ [][NextOrder]_vars

\* The system of InitTags, with a caller that keeps the array a query
\* returned and pushes on it, pops from it and reverses it.
NextCopy ==
  \/ \E pos \in SpawnPositions : CreateParticle(pos, FALSE)
  \/ \E p \in Ids : SetRemoveFlag(p, TRUE)
  \/ Query(NoFilter)
  \/ \E e \in Ids : HeldPush(e)
  \/ HeldPop
  \/ HeldReverse
  \/ UpdateBegin
  \/ UpdateFinish

SpecCopy == InitTags /\ [][NextCopy]_vars

\* Where a particle of the creation queue is moved to before its commit:
\* outside the bounds and the grid, and outside the bounds in a cell of the
\* grid.
MovePositions == {<<-1, 0, 0>>, <<Width + 1, Height, 0>>}

\* The system of InitTags, whose queued particles are tagged and moved
\* before update() commits them.
NextCommit ==
  \/ \E pos \in SpawnPositions : CreateParticle(pos, FALSE)
  \/ \E p \in Range(particleCreationQueue), t \in Tags : AddTag(p, t)
  \/ \E p \in Ids, v \in MovePositions : SetPosition(p, v)
  \/ UpdateBegin
  \/ UpdateFinish

SpecCommit == InitTags /\ [][NextCommit]_vars

\* A system with a counting one-way interaction over all particles, whose
\* neighbours are all particles, a behavior of the user's that pushes the
\* particles and boundaryBounceBehavior.
InitNeighbors ==
  /\ InitSystem
  /\ maxParticles = MaxObjects
  /\ maxDensity = <<2, 1>>
  /\ interactions = <<[interaction |-> "count", filter |-> NoFilter,
                       neighborFilter |-> NoFilter]>>
  /\ symmetricInteractions = <<>>
  /\ behaviors = << [behavior |-> "user", filter |-> NoFilter],
                    [behavior |-> "bounce", filter |-> NoFilter] >>

NextNeighbors ==
  \/ \E pos \in SpawnPositions : CreateParticle(pos, FALSE)
  \/ UpdateBegin
  \/ \E f \in ForceChoices : BehaviorApplyForce(f)
  \/ BehaviorBounce
  \/ BehaviorNext
  \/ UpdateFinish

SpecNeighbors == InitNeighbors /\ [][NextNeighbors]_vars

\* The tag filters a symmetric interaction is registered with: and and or,
\* over one tag and over two.
PairFilters ==
  {AndFilter(<<"a">>), AndFilter(<<"a", "b">>), OrFilter(<<"a">>), OrFilter(<<"a", "b">>)}

\* A system with one counting symmetric interaction under a tag filter; its
\* particles are tagged between the calls of update() and stay where they
\* were made.
InitPairs ==
  /\ InitSystem
  /\ maxParticles = MaxObjects
  /\ maxDensity = <<2, 1>>
  /\ interactions = <<>>
  /\ \E f \in PairFilters :
       symmetricInteractions = <<[interaction |-> "count", filter |-> f]>>
  /\ behaviors = <<>>

NextPairs ==
  \/ \E pos \in SpawnPositions : CreateParticle(pos, FALSE)
  \/ \E p \in Ids, t \in Tags : AddTag(p, t)
  \/ UpdateBegin
  \/ UpdateFinish

SpecPairs == InitPairs /\ [][NextPairs]_vars

\* The position options the spatial queries are made with: none; at the far
\* corner of the bounds with no radius and with radius 0 and 1; right of the
\* grid with radius 1 and 2.
QueryPositions ==
  {NoPosition, [keys |-> {"at"}, at |-> <<Width, Height, 0>>, radius |-> 0]}
    \cup {[keys |-> {"at", "radius"}, at |-> <<Width, Height, 0>>, radius |-> r] : r \in 0..1}
    \cup {[keys |-> {"at", "radius"}, at |-> <<3 * CellSize, 0, 0>>, radius |-> r] : r \in 1..2}

\* The tag filters the spatial queries are made with.
QueryFilters == {NoFilter, OrFilter(<<"a">>)}

\* The system of InitTags, asked spatial queries between the calls of
\* update().
NextQuery ==
  \/ \E pos \in SpawnPositions : CreateParticle(pos, FALSE)
  \/ \E p \in Range(grid.particles) : AddTag(p, "a")
  \/ \E f \in QueryFilters, position \in QueryPositions : QueryAt(f, position)
  \/ UpdateBegin
  \/ UpdateFinish

SpecQuery == InitTags /\ [][NextQuery]_vars

\* Forces along x and along z.
DeepForces == {<<1, 0, 0>>, <<0, 0, 1>>}

\* A system with one behavior of the user's, which hands every particle a
\* force along x or along z.
InitForces ==
  /\ InitSystem
  /\ maxParticles = MaxObjects
  /\ maxDensity = <<2, 1>>
  /\ interactions = <<>>
  /\ symmetricInteractions = <<>>
  /\ behaviors = <<[behavior |-> "user", filter |-> NoFilter]>>

NextForces ==
  \/ \E pos \in SpawnPositions : CreateParticle(pos, FALSE)
  \/ UpdateBegin
  \/ \E f \in DeepForces : BehaviorApplyForce(f)
  \/ UpdateFinish

SpecForces == InitForces /\ [][NextForces]_vars

\* Caps and masses, and forces they divide without remainder.
CapChoices == {-1, 0, 2}

MassChoices == {1, 2}

CappedForces == {<<2, 0, 0>>, <<-4, 0, 0>>}

\* setMaxForce(n)
SetMaxForce(n) ==
  /\ pc = "idle"
  /\ maxForce # n
  /\ maxForce' = n
  /\ call' = NoCall
  /\ UNCHANGED <<particle, spring, grid, particleCreationQueue, springs,
                 springCreationQueue, maxParticles, maxDensity, behaviors,
                 symmetricInteractions, interactions, pc, bi, todo, ticks,
                 symCalls, log, held, hashed>>

\* particle.setMass(m)
SetMass(p, m) ==
  /\ pc = "idle"
  /\ p \in DOMAIN particle
  /\ particle[p].mass # m
  /\ particle' = [particle EXCEPT ![p].mass = m]
  /\ call' = NoCall
  /\ UNCHANGED <<spring, grid, particleCreationQueue, springs, springCreationQueue,
                 config, pc, bi, todo, ticks, symCalls, log, held>>

NextCap ==
  \/ CreateParticle(Zero, FALSE)
  \/ \E n \in CapChoices : SetMaxForce(n)
  \/ \E p \in Ids : \E m \in MassChoices : SetMass(p, m)
  \/ UpdateBegin
  \/ \E f \in CappedForces : BehaviorApplyForce(f)
  \/ UpdateFinish

SpecCap == InitForces /\ [][NextCap]_vars

\* Rest lengths below and above the distances of the spawn positions, and
\* stiffnesses.
RestLengths == {1, 3}

Stiffnesses == {1, 2}

\* The system of InitTags with springs of several rest lengths and
\* stiffnesses between particles, of which some are made static.
NextSpringForce ==
  \/ \E pos \in SpawnPositions : CreateParticle(pos, FALSE)
  \/ \E a, b \in Ids : \E restLength \in RestLengths : \E k \in Stiffnesses :
       CreateSpring(a, b, restLength, k)
  \/ \E p \in Ids : MakeStatic(p)
  \/ UpdateBegin
  \/ UpdateFinish

SpecSpringForce == InitTags /\ [][NextSpringForce]_vars

\* A system with three behaviors of the user's, each of which pushes the
\* particle it is called with to the left, flags it, or makes a particle or
\* a spring between two particles of the grid or of the queue.
InitMidTick ==
  /\ InitSystem
  /\ maxParticles = MaxObjects
  /\ maxDensity = <<2, 1>>
  /\ interactions = <<>>
  /\ symmetricInteractions = <<>>
  /\ behaviors = [i \in 1..3 |-> [behavior |-> "user", filter |-> NoFilter]]

NextMidTick ==
  \/ \E x \in {1, Width} : CreateParticle(<<x, 0, 0>>, FALSE)
  \/ UpdateBegin
  \/ BehaviorApplyForce(<<-1, 0, 0>>)
  \/ BehaviorSetRemoveFlag(TRUE)
  \/ BehaviorCreateParticle(<<Width, 0, 0>>)
  \/ \E a, b \in Range(grid.particles) \cup Range(particleCreationQueue) :
       BehaviorCreateSpring(a, b, 1, 1)
  \/ BehaviorNext
  \/ UpdateFinish

SpecMidTick == InitMidTick /\ [][NextMidTick]_vars

\* The largest width and height of the bounds, and the largest cell size, of
\* the grids hashPosition is asked of.
MaxSide == 4
MaxCell == 3

\* new SpatialGrid(new BoundingBox(width, height), cellSize).hashPosition(pos),
\* asked once, and the index getDensity reads the cell of pos at.
HashProbe(width, height, cellSize, pos) ==
  /\ pc = "idle"
  /\ ~hashed.made
  /\ hashed' =
       LET rows == RowsOf(height, cellSize)
           cols == ColsOf(width, cellSize)
       IN [made |-> TRUE, width |-> width, height |-> height, cellSize |-> cellSize,
           rows |-> rows, cols |-> cols, pos |-> pos,
           index |-> HashPositionIn(pos, cellSize, rows, cols),
           cell |-> (pos[1] \div cellSize) + (pos[2] \div cellSize) * cols]
  /\ UNCHANGED <<particle, spring, grid, particleCreationQueue, springs,
                 springCreationQueue, maxParticles, maxDensity, maxForce, behaviors,
                 symmetricInteractions, interactions, pc, bi, todo, ticks, ghost>>

\* Grids of every size up to the largest, asked for positions inside the
\* bounds and up to a cell and more outside them.
NextHash ==
  \E width \in 0..MaxSide, height \in 0..MaxSide, cellSize \in 1..MaxCell :
    \E x \in (-1)..(width + cellSize + 1), y \in (-1)..(height + cellSize + 1) :
      HashProbe(width, height, cellSize, <<x, y, 0>>)

SpecHash == InitTags /\ [][NextHash]_vars

\* The filters the behavior that removes tags is registered with.
WalkFilters == {AndFilter(<<"a">>), AndFilter(<<"a", "b">>), OrFilter(<<"a">>)}

\* A system with one behavior of the user's under a tag filter, which removes
\* a tag from the particle it is called with or leaves it alone; particles
\* of the grid are tagged between the calls of update().
InitWalk ==
  /\ InitSystem
  /\ maxParticles = MaxObjects
  /\ maxDensity = <<2, 1>>
  /\ interactions = <<>>
  /\ symmetricInteractions = <<>>
  /\ \E f \in WalkFilters : behaviors = <<[behavior |-> "user", filter |-> f]>>

NextWalk ==
  \/ \E pos \in SpawnPositions : CreateParticle(pos, FALSE)
  \/ \E p \in Range(grid.particles) : \E t \in Tags : AddTag(p, t)
  \/ UpdateBegin
  \/ \E t \in Tags : BehaviorRemoveTag(t)
  \/ BehaviorSetRemoveFlag(FALSE)
  \/ UpdateFinish

SpecWalk == InitWalk /\ [][NextWalk]_vars

(***************************************************************************)
(* What the properties speak of.                                           *)
(***************************************************************************)
Live == Range(grid.particles)
Queued == Range(particleCreationQueue)

\* A particle that was in the grid and was taken out by cleanUpParticles.
Removed(p) == p \in Ids /\ p \notin Live /\ p \notin Queued

\* The filters queries are made with.
TagLists == {<<"a">>, <<"b">>, <<"a", "b">>, <<"b", "a">>}
Filters == {NoFilter} \cup {AndFilter(ts) : ts \in TagLists} \cup {OrFilter(ts) : ts \in TagLists}

\* Some query returns p: the global one, or a spatial one, which concatenates
\* what the cells it visits return.
Returned(p) ==
  \E f \in Filters :
    \/ Includes(GridQuery(grid, f), p)
    \/ \E c \in CellIndexes : Includes(TagIndexQuery(grid.cells[c], f), p)

\* Whether p matches the filter by its own tag set.
Matches(p, f) ==
  CASE f.kind = "none" -> TRUE
    [] f.kind = "and" -> \A i \in 1..Len(f.tags) : f.tags[i] \in particle[p].tags
    [] f.kind = "or" -> \E i \in 1..Len(f.tags) : f.tags[i] \in particle[p].tags
    [] OTHER -> FALSE

\* The cells whose membership list holds p.
CellsOf(p) == {c \in CellIndexes : Includes(grid.cells[c].particles, p)}

\* Cells within Chebyshev distance 1 of each other.
Adjacent(c1, c2) ==
  /\ Abs((c1 % Cols) - (c2 % Cols)) <= 1
  /\ Abs((c1 \div Cols) - (c2 \div Cols)) <= 1

\* The density of the cell of pos is at or above maxDensity.
Dense(pos) ==
  /\ HashPosition(pos) >= 0
  /\ Len(grid.cells[HashPosition(pos)].particles) * maxDensity[2]
       >= maxDensity[1] * CellSize * CellSize

(***************************************************************************)
(* C1.  Deferred creation: a particle createParticle returned is returned  *)
(* by no query, with any tag filter, global or spatial, until update()     *)
(* commits it; from then on every query whose filter it matches returns    *)
(* it.  Particle.addTag on the queued particle enters it in the tag        *)
(* arrays of its cell and of the global index, and the tag-filtered        *)
(* queries return it before the commit.                                    *)
(***************************************************************************)
DeferredCreation ==
  /\ \A p \in Queued : p \notin Live => ~Returned(p)
  /\ \A p \in Live : \A f \in Filters : Matches(p, f) => Includes(GridQuery(grid, f), p)

(***************************************************************************)
(* C2.  Deferred destruction: a particle flagged for removal is integrated *)
(* in the update() that removes it, and once cleanUpParticles has taken it *)
(* out no query returns it, global, tag-filtered or spatial.               *)
(***************************************************************************)
DeferredDestruction ==
  \A p \in Ids : Removed(p) => particle[p].life >= 1 /\ ~Returned(p)

(***************************************************************************)
(* C3.  Bucket invariant: after every update(), the cells whose membership *)
(* list holds a live particle are exactly the one at                       *)
(* hashPosition(position).                                                 *)
(***************************************************************************)
BucketInvariant ==
  pc = "idle" =>
    \A p \in Live : \A c \in CellIndexes :
      Includes(grid.cells[c].particles, p) <=> c = HashPosition(particle[p].position)

(***************************************************************************)
(* C4.  Pairwise dedup: the symmetric interaction registered with the      *)
(* empty filter is invoked exactly once on every unordered pair of         *)
(* distinct live particles whose cells are within Chebyshev distance 1,    *)
(* not at all on a pair farther apart, and never on a particle and itself. *)
(* The cells hold the same particles from the interactions to the end of   *)
(* the behaviors, where this is read.                                      *)
(***************************************************************************)
PairwiseDedup ==
  pc = "behaviors" =>
    /\ \A a, b \in Live :
         a # b =>
           LET n == Count(symCalls, <<a, b>>) + Count(symCalls, <<b, a>>)
               near == \E c1 \in CellsOf(a), c2 \in CellsOf(b) : Adjacent(c1, c2)
           IN n = (IF near THEN 1 ELSE 0)
    /\ \A a \in Ids : Count(symCalls, <<a, a>>) = 0

(***************************************************************************)
(* C5.  Tag/membership duality: for every live particle p and tag t, the   *)
(* global query {or: [t]} returns p exactly if t is in p.tags, and exactly *)
(* if the cell holding p lists p under t.                                  *)
(***************************************************************************)
TagMembershipDuality ==
  \A p \in Live : \A t \in Tags :
    LET inGlobal == Includes(GridQuery(grid, OrFilter(<<t>>)), p)
        hasTag == t \in particle[p].tags
        inCell == \E c \in CellsOf(p) : Includes(grid.cells[c].tagIndex[t], p)
    IN (inGlobal <=> hasTag) /\ (hasTag <=> inCell)

\* A committed particle that was tagged while queued, next to a queued one
\* that was tagged and a tag that was taken off again.
TagMembershipDualityWitness ==
  /\ ticks >= 1 /\ pc = "idle"
  /\ \E p \in Live : particle[p].tags = {"a"} /\ particle[p].life >= 1
  /\ \E q \in Queued : particle[q].tags = {"a", "b"}

(***************************************************************************)
(* C6.  query({or: tags}) returns the union of the tags' member arrays,    *)
(* every entity at most once.                                              *)
(***************************************************************************)
OrQueryIsUnion ==
  \A ts \in TagLists :
    LET out == TagIndexQuery(grid.globalTagIndex, OrFilter(ts))
    IN /\ Range(out) = UNION {Range(grid.globalTagIndex.tagIndex[ts[i]]) : i \in 1..Len(ts)}
       /\ NoDuplicates(out)

(***************************************************************************)
(* C7.  Admission rejection: createParticle(pos, false) at a position      *)
(* whose cell has density at or above maxDensity returns no particle and   *)
(* enqueues nothing, and the commit of the next update() lengthens the     *)
(* live list by the queue alone.                                           *)
(***************************************************************************)
AdmissionRejection ==
  [][ /\ ( /\ call' # call /\ call'.made /\ ~call'.allowOutside
           /\ Dense(call'.pos) )
         => /\ call'.result = NoParticle
            /\ ~call'.error
            /\ particleCreationQueue' = particleCreationQueue
            /\ particle' = particle
      /\ (pc = "idle" /\ pc' = "behaviors")
         => grid'.particles = grid.particles \o particleCreationQueue
    ]_vars

\* A call refused for the density of its cell alone.
AdmissionRejectionWitness ==
  /\ call.made /\ ~call.allowOutside /\ call.result = NoParticle
  /\ ContainsVector(call.pos) /\ Dense(call.pos)
  /\ Len(grid.particles) < maxParticles
  /\ FracLess(GetDensity(grid, call.pos), One)

(***************************************************************************)
(* C8.  maxParticles is a hard cap: with every particle made by            *)
(* createParticle(pos, false), the live list never holds more than         *)
(* maxParticles particles.                                                 *)
(***************************************************************************)
HardCap == Len(grid.particles) <= maxParticles

(***************************************************************************)
(* C9.  A static particle at rest keeps its position and its velocity in   *)
(* every step, whatever forces springs and behaviors hand to it.           *)
(***************************************************************************)
StaticStaysPut ==
  [][ \A p \in Ids :
        (particle[p].staticBody /\ particle[p].velocity = Zero)
          => /\ particle'[p].position = particle[p].position
             /\ particle'[p].velocity = Zero ]_vars

\* A static particle that a spring and a behavior handed forces to, two
\* updates on.
StaticStaysPutWitness ==
  \E p \in Live :
    /\ particle[p].staticBody /\ particle[p].hit /\ particle[p].life >= 2
    /\ \E s \in Range(springs) : spring[s].particle1 = p \/ spring[s].particle2 = p

(***************************************************************************)
(* C10.  createParticle(pos, false) with pos outside the bounds returns no *)
(* particle, enqueues nothing and raises no error, whatever maxDensity and *)
(* maxParticles are.                                                       *)
(***************************************************************************)
OutsideRefused ==
  [][ ( /\ call' # call /\ call'.made /\ ~call'.allowOutside
        /\ ~ContainsVector(call'.pos) )
      => /\ call'.result = NoParticle
         /\ ~call'.error
         /\ particleCreationQueue' = particleCreationQueue
         /\ particle' = particle ]_vars

\* A call outside the bounds refused while the population is under its cap
\* and maxDensity is above 1.
OutsideRefusedWitness ==
  /\ call.made /\ ~call.allowOutside /\ ~ContainsVector(call.pos)
  /\ call.result = NoParticle
  /\ Len(grid.particles) < maxParticles
  /\ FracLess(One, maxDensity)

(***************************************************************************)
(* C11.  addParticle raises when the particle's position is outside the    *)
(* bounds and then changes no list of the grid; otherwise it pushes the    *)
(* particle on the flat list, on the membership list and the tag arrays of *)
(* the cell hashPosition gives, and on those of the global index.  Read on *)
(* the commit of update(): the queue is added up to the first particle     *)
(* outside the bounds, and update() raises exactly if there is one.        *)
(***************************************************************************)
AddParticleContract ==
  [][ ticks' = ticks + 1 =>
        LET q == particleCreationQueue
            k == FirstIndex(Len(q), {i \in 1..Len(q) : ~ContainsVector(particle[q[i]].position)})
            added == SubSeq(q, 1, k - 1)
            In(c) == SelectSeq(added, LAMBDA e : HashPosition(particle[e].position) = c)
            Tagged(s, t, old) ==
              SelectSeq(s, LAMBDA e : t \in particle[e].tags /\ ~Includes(old, e))
        IN /\ (k <= Len(q)) <=> (log'.error /\ log'.phases = <<>>)
           /\ grid'.particles = grid.particles \o added
           /\ grid'.globalTagIndex.particles = grid.globalTagIndex.particles \o added
           /\ \A t \in Tags :
                grid'.globalTagIndex.tagIndex[t] =
                  grid.globalTagIndex.tagIndex[t]
                    \o Tagged(added, t, grid.globalTagIndex.tagIndex[t])
           /\ \A c \in CellIndexes :
                /\ grid'.cells[c].particles = grid.cells[c].particles \o In(c)
                /\ \A t \in Tags :
                     grid'.cells[c].tagIndex[t] =
                       grid.cells[c].tagIndex[t]
                         \o Tagged(In(c), t, grid.cells[c].tagIndex[t])
    ]_vars

\* An update() that committed a tagged particle and raised on the next one
\* of the queue, which lies outside the bounds.
AddParticleContractWitness ==
  /\ log.error /\ log.phases = <<>> /\ pc = "idle"
  /\ \E p \in Live : particle[p].tags # {} /\ Includes(particleCreationQueue, p)
  /\ \E p \in Queued : p \notin Live /\ ~ContainsVector(particle[p].position)

(***************************************************************************)
(* C12.  Every particle createParticle returns, with allowOutside true or  *)
(* false and for any position asked for, has its position inside the       *)
(* bounds, and the commit of update() adds it to the grid without raising, *)
(* its position being left as it is until then.                            *)
(***************************************************************************)
ClampedSpawn ==
  /\ \A p \in Queued : ContainsVector(particle[p].position)
  /\ call.made /\ call.result # NoParticle
       => ContainsVector(particle[call.result].position)
  /\ ~log.error

\* A particle asked for left of the bounds, clamped to their edge and
\* committed, while another asked for right of them waits in the queue.
ClampedSpawnWitness ==
  /\ ticks >= 1 /\ ~log.error
  /\ \E p \in Live : particle[p].position[1] = 0
  /\ call.made /\ call.allowOutside /\ call.pos[1] = Width + 1
  /\ call.result \in Queued

(***************************************************************************)
(* C13.  Every update() runs its six phases once and in order: commit of   *)
(* the particle queue, commit of the spring queue, springs, behaviors and  *)
(* interactions, integration, cleanup; whatever is registered and queued,  *)
(* update() returns with all six run.                                      *)
(***************************************************************************)
PhasesInOrder ==
  (pc = "idle" /\ ticks >= 1) => log.phases = CommitPhases \o LatePhases

(***************************************************************************)
(* C14.  A spring createSpring returned is not in the active list, and its *)
(* update() is not called, until update() commits the spring queue; that   *)
(* update() and every later one calls its update() once, and it leaves the *)
(* active list only in a cleanup.                                          *)
(***************************************************************************)
SpringLifecycle ==
  [][ /\ \A s \in Range(springCreationQueue') :
           ~Includes(springs', s) /\ ~Includes(log'.sprung, s)
      /\ (ticks' = ticks + 1 /\ log'.phases # <<>>)
           => \A s \in Range(springs) \cup Range(springCreationQueue) :
                Includes(springs', s) /\ Count(log'.sprung, s) = 1
      /\ \A s \in Range(springs) :
           ~Includes(springs', s)
             => /\ pc = "behaviors" /\ pc' = "idle"
                /\ log'.phases = CommitPhases \o LatePhases ]_vars

\* A spring in its second update(): the first one moved its ends.
SpringLifecycleWitness ==
  /\ pc = "behaviors" /\ ticks >= 2
  /\ \E s \in Range(springs) :
       /\ Includes(log.sprung, s)
       /\ particle[spring[s].particle1].life >= 1
       /\ particle[spring[s].particle1].velocity # Zero

(***************************************************************************)
(* C15.  The removal flag of a particle, once true, stays true under every *)
(* operation of the particle and of the system.                            *)
(***************************************************************************)
RemoveFlagSticky ==
  [][ \A p \in Ids : particle[p].removeFlag => particle'[p].removeFlag ]_vars

(***************************************************************************)
(* C16.  A spring whose removal flag is set hands no force to its ends in  *)
(* the update() whose cleanup takes it out of the active list.             *)
(***************************************************************************)
FlaggedSpringIdle ==
  [][ (ticks' = ticks + 1 /\ log'.phases # <<>>)
        => \A s \in Range(log'.sprung) :
             spring[s].removeFlag
               => SpringForce(spring[s], particle[spring[s].particle1].position,
                              particle[spring[s].particle2].position) = Zero ]_vars

\* The place of a category in updateBehaviors().
Rank(kind) ==
  CASE kind = "interaction" -> 1
    [] kind = "symmetric" -> 2
    [] kind = "behavior" -> 3

(***************************************************************************)
(* C17.  Within one update() every one-way interaction is invoked before   *)
(* every symmetric interaction, and these before every behavior; within a  *)
(* category the functions are invoked in the order of their registration.  *)
(***************************************************************************)
InvocationOrder ==
  \A i, j \in 1..Len(log.calls) :
    i < j =>
      /\ Rank(log.calls[i].kind) <= Rank(log.calls[j].kind)
      /\ log.calls[i].kind = log.calls[j].kind => log.calls[i].index <= log.calls[j].index

\* An update() in which both functions of each of the three categories were
\* invoked.
InvocationOrderWitness ==
  /\ pc = "behaviors"
  /\ \A kind \in {"interaction", "symmetric", "behavior"} : \A k \in 1..2 :
       \E i \in 1..Len(log.calls) : log.calls[i].kind = kind /\ log.calls[i].index = k

(***************************************************************************)
(* C18.  createParticle(pos, true) always returns a particle and appends   *)
(* it to the creation queue, whatever the live population, maxParticles    *)
(* and the density of the cell of pos are.                                 *)
(***************************************************************************)
AllowOutsideAdmits ==
  [][ (call' # call /\ call'.made /\ call'.allowOutside)
        => /\ call'.result # NoParticle
           /\ ~call'.error
           /\ call'.result \notin Ids
           /\ particleCreationQueue' = Append(particleCreationQueue, call'.result) ]_vars

\* A particle returned with allowOutside while the live list is at
\* maxParticles and the cell asked for is at maxDensity.
AllowOutsideAdmitsWitness ==
  /\ call.made /\ call.allowOutside /\ call.result \in Queued
  /\ Len(grid.particles) >= maxParticles
  /\ ContainsVector(call.pos) /\ Dense(call.pos)

(***************************************************************************)
(* C19.  A query with the filter {and: []} raises nothing: an update()     *)
(* with a function registered under that filter surfaces no error.         *)
(***************************************************************************)
MalformedFilterQuiet == ~log.error

\* The content of the array the caller holds.
HeldList == ArrayOf(grid, held)

(***************************************************************************)
(* C20.  query({}) returns a copy of the membership list made for the      *)
(* call: what the caller does to the array changes nothing in the index,   *)
(* and what add and remove do to the index changes nothing in the array.   *)
(***************************************************************************)
FreshCopy ==
  [][ /\ (held' # held /\ held'.filter = NoFilter /\ grid' = grid)
           => \/ HeldList' = grid.globalTagIndex.particles
              \/ held.made /\ held.filter = NoFilter /\ held'.array = held.array
      /\ (held.made /\ held.filter = NoFilter)
           => HeldList' = HeldList \/ grid' = grid ]_vars

\* The caller holds the array of a query({}): it lists a particle the index
\* has not, and the index lists a particle it has not.
FreshCopyWitness ==
  /\ held.made /\ held.filter = NoFilter /\ ticks >= 2
  /\ \E e \in Range(HeldList) : ~Includes(grid.globalTagIndex.particles, e)
  /\ \E e \in Range(grid.globalTagIndex.particles) : ~Includes(HeldList, e)

\* Every TagIndex of the grid: the global one and one per cell.
TagIndexes == {grid.globalTagIndex} \cup {grid.cells[c] : c \in CellIndexes}

(***************************************************************************)
(* C21.  TagIndex invariant: in the global TagIndex and in every cell's,   *)
(* an entity that is not in the membership list is in no tag's array, and  *)
(* an entity that is in it is in the arrays of exactly the tags of its tag *)
(* set; particles tagged while queued and particles taken out included.    *)
(***************************************************************************)
TagIndexInvariant ==
  \A ti \in TagIndexes : \A e \in Ids : \A t \in Tags :
    Includes(ti.tagIndex[t], e) <=> (Includes(ti.particles, e) /\ t \in particle[e].tags)

RECURSIVE NetSpringForce(_, _, _)
\* The sum of the forces the springs of active, from place i on, hand to
\* particle p where the particles stand now: Spring.update() gives the force
\* to particle1 and its negation to particle2.
NetSpringForce(p, active, i) ==
  IF i > Len(active) THEN Zero
  ELSE LET s == spring[active[i]]
           f == SpringForce(s, particle[s.particle1].position, particle[s.particle2].position)
           own == VecAdd(IF s.particle1 = p THEN f ELSE Zero,
                         IF s.particle2 = p THEN VecMult(f, -1) ELSE Zero)
       IN VecAdd(own, NetSpringForce(p, active, i + 1))

(***************************************************************************)
(* C22.  The constraint phase of every update() calls update() once on     *)
(* every spring of the active list, those whose removal flag is set        *)
(* included: every particle's force accumulator grows by the forces of all *)
(* the active springs it ends, flagged or not.                             *)
(***************************************************************************)
SpringsAllUpdated ==
  [][ (ticks' = ticks + 1 /\ log'.phases # <<>>)
        => /\ \A s \in SpringIds :
                Count(log'.sprung, s) = (IF Includes(springs', s) THEN 1 ELSE 0)
           /\ \A p \in Ids :
                particle'[p].forces =
                  IF particle[p].staticBody THEN particle[p].forces
                  ELSE VecAdd(particle[p].forces, NetSpringForce(p, springs', 1)) ]_vars

\* The constraint phase has run on a spring flagged for removal, which pushed
\* on its first end.
SpringsAllUpdatedWitness ==
  /\ pc = "behaviors"
  /\ \E s \in Range(log.sprung) :
       /\ spring[s].removeFlag
       /\ Includes(springs, s)
       /\ particle[spring[s].particle1].forces # Zero

InBlock(n, at) ==
  LET col == n[1] \div CellSize
      row == n[2] \div CellSize
  IN /\ col >= 0 /\ col < Cols /\ row >= 0 /\ row < Rows
     /\ Abs(col - (at[1] \div CellSize)) <= 1
     /\ Abs(row - (at[2] \div CellSize)) <= 1

(***************************************************************************)
(* C24.  Every one-way interaction is invoked once with each particle p    *)
(* the global query of its filter returns, and the neighbour list it is    *)
(* handed holds exactly the live particles other than p that match the     *)
(* neighbour filter and stand in the 3x3 block of cells around the cell of *)
(* p's position (cells outside the grid left out); it never holds p.       *)
(***************************************************************************)
NeighborLists ==
  [][ (ticks' = ticks + 1 /\ log'.phases # <<>> /\ ~log'.error)
        => /\ \A k \in 1..Len(interactions) :
                SelectSeq(log'.handed, LAMBDA h : h.index = k)
                  = [i \in 1..Len(GridQuery(grid', interactions[k].filter)) |->
                       [index |-> k,
                        on |-> GridQuery(grid', interactions[k].filter)[i],
                        neighbors |-> SelectSeq(log'.handed, LAMBDA h : h.index = k)[i].neighbors]]
           /\ \A i \in 1..Len(log'.handed) :
                LET h == log'.handed[i]
                IN /\ Range(h.neighbors) =
                        {n \in Live' :
                           /\ n # h.on
                           /\ Matches(n, interactions[h.index].neighborFilter)
                           /\ InBlock(particle'[n].position, particle'[h.on].position)}
                   /\ ~Includes(h.neighbors, h.on) ]_vars

(***************************************************************************)
(* C25.  A symmetric interaction registered with a tag filter, and or or,  *)
(* over one tag or several, is never invoked with one particle as both     *)
(* arguments, and at most once on an unordered pair of particles of the    *)
(* same cell, also when a particle carries several tags of an or filter.   *)
(* The particles of this system do not move, so that two particles of one  *)
(* cell are paired by the same-cell pass alone.                            *)
(***************************************************************************)
SameCellDistinct ==
  pc = "behaviors" =>
    /\ \A a \in Ids : Count(symCalls, <<a, a>>) = 0
    /\ \A a, b \in Live :
         (a # b /\ HashPosition(particle[a].position) = HashPosition(particle[b].position))
           => Count(symCalls, <<a, b>>) + Count(symCalls, <<b, a>>) <= 1

\* The cells a query around position at with radius r is to read, as the
\* claim has them: the columns and rows within r of the cell of at that the
\* grid has, column by column.
BlockCells(at, r) ==
  LET cx == at[1] \div CellSize
      cy == at[2] \div CellSize
      xlo == Max(cx - r, 0)
      ylo == Max(cy - r, 0)
      nx == Max(Min(cx + r, Cols - 1) - xlo + 1, 0)
      ny == Max(Min(cy + r, Rows - 1) - ylo + 1, 0)
  IN [i \in 1..(nx * ny) |-> (xlo + ((i - 1) \div ny)) + (ylo + ((i - 1) % ny)) * Cols]

(***************************************************************************)
(* C26.  SpatialGrid.query with position {at, radius: r} returns the       *)
(* concatenation of the tag-filtered members of exactly the cells within r *)
(* columns and r rows of the cell of at that lie inside the grid; without  *)
(* position it returns what the global TagIndex query returns, and without *)
(* radius r is 0.                                                          *)
(***************************************************************************)
SpatialQueryCells ==
  [][ (held' # held /\ held'.made)
        => LET pos == held'.position
               f == held'.filter
               r == IF "radius" \in pos.keys THEN pos.radius ELSE 0
               block == BlockCells(pos.at, r)
           IN held'.value =
                IF pos.keys = {} THEN TagIndexQuery(grid.globalTagIndex, f)
                ELSE Concat([i \in 1..Len(block) |-> TagIndexQuery(grid.cells[block[i]], f)])
    ]_vars

\* A query of radius 1 around the far corner of the bounds returned two
\* particles of two cells, the one of the lower column first though it was
\* made last; and its block reaches beyond the grid.
SpatialQueryCellsWitness ==
  /\ held.made /\ held.position.keys = {"at", "radius"} /\ held.position.radius = 1
  /\ held.position.at = <<Width, Height, 0>>
  /\ Len(held.value) = 2
  /\ held.value[1] > held.value[2]
  /\ HashPosition(particle[held.value[1]].position) # HashPosition(particle[held.value[2]].position)

ForcesFlushed ==
  [][ (pc = "behaviors" /\ pc' = "idle" /\ log'.phases = CommitPhases \o LatePhases)
        => \A p \in Range(grid.particles) :
             /\ particle'[p].forces = Zero
             /\ particle'[p].life = particle[p].life + 1 ]_vars


(***************************************************************************)
(* C29.  Particle.update limits the accumulated force F to the cap c >= 0  *)
(* first and divides by the mass m afterwards: the velocity changes by     *)
(* clamp(F, c) / m, and by F / m under a negative cap.  clamp(F, c) is,    *)
(* for F along one axis, the vector with the direction of F and the length *)
(* min(|F|, c).                                                            *)
(***************************************************************************)
CapThenMass ==
  [][ (pc = "behaviors" /\ pc' = "idle" /\ log'.phases = CommitPhases \o LatePhases)
        => \A p \in Range(grid.particles) :
             LET F == particle[p].forces
                 c == maxForce
                 clamped == [i \in 1..3 |->
                               IF c >= 0 /\ F[i] > c THEN c
                               ELSE IF c >= 0 /\ -F[i] > c THEN -c
                               ELSE F[i]]
             IN VecMult(VecSub(particle'[p].velocity, particle[p].velocity),
                        particle[p].mass) = clamped ]_vars

\* After its first update a particle has the velocity -1 along x, which of
\* the forces, caps and masses only -4 limited to 2 and divided by 2 gives.
CapThenMassWitness ==
  /\ pc = "idle"
  /\ \E p \in Range(grid.particles) :
       particle[p].life = 1 /\ particle[p].velocity = <<-1, 0, 0>>

ListsStable ==
  [][ /\ (pc = "behaviors" /\ pc' = "behaviors")
        => grid'.particles = grid.particles /\ springs' = springs
      /\ (pc = "idle" /\ pc' = "behaviors")
        => /\ grid'.particles = grid.particles \o particleCreationQueue
           /\ springs' = springs \o springCreationQueue
      /\ (pc = "behaviors" /\ pc' = "idle" /\ ~log'.error)
        => /\ grid'.particles
                = SelectSeq(grid.particles, LAMBDA e : ~particle[e].removeFlag)
           /\ springs' = SelectSeq(springs, LAMBDA s : ~spring'[s].removeFlag) ]_vars

\* A behavior has made a particle and a spring and flagged a particle; the
\* flat list and the active list are as the commit left them.
ListsStableWitness ==
  /\ pc = "behaviors"
  /\ particleCreationQueue # <<>>
  /\ springCreationQueue # <<>>
  /\ \E e \in Range(grid.particles) : particle[e].removeFlag
  /\ Len(grid.particles) = 1 /\ springs = <<>>


(***************************************************************************)
(* C33.  For a position inside the bounds, edges included, and a positive  *)
(* cell size, hashPosition gives an index from 0 to rows * cols - 1 and    *)
(* never -1, where rows = ceil((height + cellSize) / cellSize) and cols    *)
(* likewise; the cell getDensity reads for the position is that index.     *)
(***************************************************************************)
CellsCoverBounds ==
  hashed.made =>
    /\ (hashed.rows - 1) * hashed.cellSize < hashed.height + hashed.cellSize
    /\ hashed.rows * hashed.cellSize >= hashed.height + hashed.cellSize
    /\ (hashed.cols - 1) * hashed.cellSize < hashed.width + hashed.cellSize
    /\ hashed.cols * hashed.cellSize >= hashed.width + hashed.cellSize
    /\ (/\ 0 <= hashed.pos[1] /\ hashed.pos[1] <= hashed.width
        /\ 0 <= hashed.pos[2] /\ hashed.pos[2] <= hashed.height)
         => /\ hashed.index \in 0..(hashed.rows * hashed.cols - 1)
            /\ hashed.cell = hashed.index

\* The far corner of bounds that are a whole number of cells wide and high
\* hashes to the last cell.
CellsCoverBoundsWitness ==
  /\ hashed.made
  /\ hashed.width > 0 /\ hashed.height > 0 /\ hashed.cellSize > 1
  /\ hashed.width % hashed.cellSize = 0 /\ hashed.height % hashed.cellSize = 0
  /\ hashed.pos = <<hashed.width, hashed.height, 0>>
  /\ hashed.index = hashed.rows * hashed.cols - 1


(***************************************************************************)
(* C34.  After every update() each particle of the grid's flat list is in  *)
(* the membership list of at most one cell, and at most once in it, also   *)
(* when boundaryBounceBehavior has written positions before the            *)
(* integration takes the old cell index.                                   *)
(***************************************************************************)
AtMostOneCell ==
  pc = "idle" =>
    \A p \in Range(grid.particles) :
      /\ Cardinality({c \in CellIndexes : Includes(grid.cells[c].particles, p)}) <= 1
      /\ \A c \in CellIndexes : Count(grid.cells[c].particles, p) <= 1


SprungEndsLive ==
  [][ (pc = "idle" /\ pc' = "behaviors")
        => \A s \in Range(log'.sprung) :
             /\ Includes(grid'.particles, spring[s].particle1)
             /\ Includes(grid'.particles, spring[s].particle2) ]_vars


(***************************************************************************)
(* C37.  A behavior registered with a tag filter is invoked on every       *)
(* particle its query returned, also when it removes the tag of the filter *)
(* from the particles it is called with: whatever an invocation does, the  *)
(* particles yet to visit are the rest of the list as the query gave it,   *)
(* for {and: [t]} with one tag too.                                        *)
(***************************************************************************)
WalkKeepsList ==
  [][ (pc = "behaviors" /\ todo # <<>> /\ pc' = "behaviors" /\ bi' = bi)
        => todo' = Tail(todo) ]_vars


(***************************************************************************)
(* C38.  When update() raises addParticle's out-of-bounds error while it   *)
(* commits the particle queue, the grid is as it was before the call: no   *)
(* particle of the queue has been inserted, and no later update() inserts  *)
(* a particle of the queue a second time.                                  *)
(***************************************************************************)
FailedCommitLeavesGrid ==
  [][ /\ (ticks' = ticks + 1 /\ log'.error /\ log'.phases = <<>>) => grid' = grid
      /\ NoDuplicates(grid'.particles) ]_vars

====
